---- MODULE Spec2Model ----
(***************************************************************************)
(* Model of extract_multiple_images_from_composite.py: the command line    *)
(* entry point (lines 77-97) and the extraction function (lines 17-75),    *)
(* run as a process over a small file system.  The vision library's        *)
(* detector is an input: the list of contours it yields for the source     *)
(* image.  Cropping, masking, naming, writing and archiving are computed   *)
(* as the code computes them.                                              *)
(***************************************************************************)
EXTENDS Integers, Sequences, FiniteSets, TLC

VARIABLES
    argv,            \* the command line of the process (sys.argv[1:])
    detected,        \* what findContours yields for the source image
    dirs,            \* file system: the directories that exist
    files,           \* file system: path -> content of the regular files
    pc,              \* position of the process
    parser,          \* arguments registered with the ArgumentParser so far
    args,            \* the parsed namespace (image_path, output_dir, zip)
    console,         \* what the parser printed (help texts, usage errors)
    log,             \* the logging records emitted by this process
    img,             \* local img of the extractor (None until loaded)
    contours,        \* local contours
    i,               \* loop variable i of enumerate(contours)
    extracted_files, \* local extracted_files
    exitCode,        \* exit status of the process (None while it runs)
    io,              \* file system calls made by this process, in order
    run,             \* number of the current invocation
    atStart          \* the file system as it was when this invocation started

vars == <<argv, detected, dirs, files, pc, parser, args, console, log, img,
          contours, i, extracted_files, exitCode, io, run, atStart>>

procVars == <<parser, args, console, log, img, contours, i, extracted_files,
              exitCode, io>>

----------------------------------------------------------------------------
(* Bounds of the model *)

MaxContours == 3
MaxRuns == 2
MaxArgs == 3
ImgW == 44
ImgH == 52

(* Program constants *)

MIN_CONTOUR_WIDTH == 20
MIN_CONTOUR_HEIGHT == 20

None == <<>>

----------------------------------------------------------------------------
(* Sequence helpers *)

Range(s) == {s[k] : k \in 1..Len(s)}

Last(s) == s[Len(s)]

RECURSIVE SeqsUpTo(_, _)
SeqsUpTo(S, n) ==
    IF n = 0 THEN {<<>>}
    ELSE LET shorter == SeqsUpTo(S, n - 1)
         IN  shorter \cup {Append(s, e) : s \in {t \in shorter : Len(t) = n - 1}, e \in S}

Injective(s) == \A a, b \in 1..Len(s) : s[a] = s[b] => a = b

Min(S) == CHOOSE m \in S : \A n \in S : m <= n
Max(S) == CHOOSE m \in S : \A n \in S : m >= n

----------------------------------------------------------------------------
(* The source image and the regions a detector can yield for it.  A point  *)
(* is <<x, y>>; a contour is the sequence of its boundary points.          *)

\* A colour pixel is the number b + 2^8 * g + 2^16 * r of its three 8-bit
\* channels; it is 0 exactly when every channel is 0.
Bgr(b, g, r) == b + 256 * g + 65536 * r

SourcePixel(r, c) ==
    Bgr(1 + ((7 * r + 3 * c) % 255), (r + 5 * c) % 256, (r * c) % 256)

SourceImage == [r \in 0..(ImgH - 1) |-> [c \in 0..(ImgW - 1) |-> SourcePixel(r, c)]]

Square21 == << <<0, 0>>, <<0, 20>>, <<20, 20>>, <<20, 0>> >>

Octagon22x21 == << <<27, 0>>, <<22, 5>>, <<22, 15>>, <<27, 20>>,
                   <<38, 20>>, <<43, 15>>, <<43, 5>>, <<38, 0>> >>

Narrow20x30 == << <<0, 22>>, <<0, 51>>, <<19, 51>>, <<19, 22>> >>

Flat22x20 == << <<22, 22>>, <<22, 41>>, <<43, 41>>, <<43, 22>> >>

Regions == {Square21, Octagon22x21, Narrow20x30, Flat22x20}

\* RETR_EXTERNAL yields each connected component once, in detector order.
Detections == {s \in SeqsUpTo(Regions, MaxContours) : Injective(s)}

----------------------------------------------------------------------------
(* Vision primitives, as the extractor uses them.  An image is a function  *)
(* row -> column -> pixel.                                                 *)

\* cv2.boundingRect: the smallest upright rectangle holding all the points.
boundingRect(contour) ==
    LET xs == {contour[k][1] : k \in 1..Len(contour)}
        ys == {contour[k][2] : k \in 1..Len(contour)}
    IN  [x |-> Min(xs), y |-> Min(ys),
         w |-> Max(xs) - Min(xs) + 1, h |-> Max(ys) - Min(ys) + 1]

\* Variant: the size test lets the minimum size itself through.
PassesFilter_NonStrict(w, h) == w >= MIN_CONTOUR_WIDTH /\ h >= MIN_CONTOUR_HEIGHT

\* w > MIN_CONTOUR_WIDTH and h > MIN_CONTOUR_HEIGHT
PassesFilter(w, h) == w > MIN_CONTOUR_WIDTH /\ h > MIN_CONTOUR_HEIGHT

\* Variant: the crop slices columns by y and rows by x.
Crop_Transposed(image, x, y, w, h) ==
    [r \in 0..(h - 1) |-> [c \in 0..(w - 1) |-> image[x + r][y + c]]]

\* img[y:y + h, x:x + w]
Crop(image, x, y, w, h) ==
    [r \in 0..(h - 1) |-> [c \in 0..(w - 1) |-> image[y + r][x + c]]]

\* np.zeros((h, w), dtype=np.uint8)
Zeros(h, w) == [r \in 0..(h - 1) |-> [c \in 0..(w - 1) |-> 0]]

\* contour - [x, y]
Translate(contour, x, y) ==
    [k \in 1..Len(contour) |-> <<contour[k][1] - x, contour[k][2] - y>>]

NextIndex(contour, k) == (k % Len(contour)) + 1

\* The point (px, py) lies on the edge from a to b.
OnEdge(px, py, a, b) ==
    /\ (b[1] - a[1]) * (py - a[2]) = (b[2] - a[2]) * (px - a[1])
    /\ (a[1] <= px /\ px <= b[1]) \/ (b[1] <= px /\ px <= a[1])
    /\ (a[2] <= py /\ py <= b[2]) \/ (b[2] <= py /\ py <= a[2])

\* The ray from (px, py) towards +x crosses the edge from a to b.
CrossesEdge(px, py, a, b) ==
    /\ (a[2] > py) # (b[2] > py)
    /\ LET dy  == b[2] - a[2]
           lhs == (px - a[1]) * dy
           rhs == (py - a[2]) * (b[1] - a[1])
       IN  IF dy > 0 THEN lhs < rhs ELSE lhs > rhs

\* The pixels a filled contour covers: its boundary and its interior.
InsideContour(contour, px, py) ==
    \/ \E k \in 1..Len(contour) :
           OnEdge(px, py, contour[k], contour[NextIndex(contour, k)])
    \/ Cardinality({k \in 1..Len(contour) :
           CrossesEdge(px, py, contour[k], contour[NextIndex(contour, k)])}) % 2 = 1

\* cv2.drawContours(mask, [contour], -1, (255), thickness=cv2.FILLED)
drawContours(mask, contour) ==
    [r \in DOMAIN mask |-> [c \in DOMAIN mask[r] |->
        IF InsideContour(contour, c, r) THEN 255 ELSE mask[r][c]]]

\* a & b on non-negative integers, channel by channel and bit by bit.
RECURSIVE BitAnd(_, _)
BitAnd(a, b) ==
    IF a = b THEN a
    ELSE IF a = 0 \/ b = 0 THEN 0
    ELSE (a % 2) * (b % 2) + 2 * BitAnd(a \div 2, b \div 2)

\* cv2.bitwise_and(src1, src2, mask=mask): a fresh zero image that gets
\* src1 & src2 where the mask is not zero.
bitwise_and(src1, src2, mask) ==
    [r \in DOMAIN src1 |-> [c \in DOMAIN src1[r] |->
        IF mask[r][c] # 0 THEN BitAnd(src1[r][c], src2[r][c]) ELSE 0]]

\* Lines 55-60: the masked crop of one region.
MaskedRoi(image, contour) ==
    LET b    == boundingRect(contour)
        roi  == Crop(image, b.x, b.y, b.w, b.h)
        mask == drawContours(Zeros(b.h, b.w), Translate(contour, b.x, b.y))
    IN  bitwise_and(roi, roi, mask)

----------------------------------------------------------------------------
(* Paths and the file system.  A path is the sequence of its components;   *)
(* a trailing empty component is a trailing separator ("tmp/out/").        *)

\* os.path.normpath, for the paths of this model: drops empty components.
normpath(p) == SelectSeq(p, LAMBDA c : c # "")

\* os.path.basename: what follows the last separator.
basename(p) == IF p = <<>> THEN "" ELSE Last(p)

\* os.path.join(p, name)
join(p, name) == IF p # <<>> /\ Last(p) = "" THEN SubSeq(p, 1, Len(p) - 1) \o <<name>>
                 ELSE p \o <<name>>

\* f"{p}.zip": the text of the path followed by ".zip".
ZipPath(p) == SubSeq(p, 1, Len(p) - 1) \o <<Last(p) \o ".zip">>

\* Variant: the file name does not carry the loop index.
FileName_IgnoresIndex(output_folder_name, idx) == output_folder_name \o "_1.png"

\* f"{output_folder_name}_{i + 1}.png"
FileName(output_folder_name, idx) == output_folder_name \o "_" \o ToString(idx + 1) \o ".png"

IsPrefix(p, q) == Len(p) <= Len(q) /\ SubSeq(q, 1, Len(p)) = p

Prefixes(p) == {SubSeq(p, 1, n) : n \in 1..Len(p)}

\* The regular files below directory d, by their path relative to d.
Listing(fs, d) ==
    LET below == {q \in DOMAIN fs : IsPrefix(d, q) /\ Len(q) > Len(d)}
        rels  == {SubSeq(q, Len(d) + 1, Len(q)) : q \in below}
    IN  [rel \in rels |-> fs[d \o rel]]

Png(px) == [kind |-> "png", px |-> px]
Zip(entries) == [kind |-> "zip", entries |-> entries, complete |-> TRUE]
\* An archive that has been opened for writing and holds nothing yet.
ZipInProgress == [kind |-> "zip", entries |-> <<>>, complete |-> FALSE]
Other(tag) == [kind |-> "other", tag |-> tag]

\* cv2.imread: the decoded image, or None when there is no such image file.
imread(fs, path) ==
    IF normpath(path) \in DOMAIN fs /\ fs[normpath(path)].kind = "png"
    THEN fs[normpath(path)].px ELSE None

\* os.makedirs(path, exist_ok=True) raises when a file is in the way.
MakedirsRaises(fs, path) == \E q \in Prefixes(normpath(path)) : q \in DOMAIN fs

\* shutil.make_archive(base, 'zip', root): opens base + ".zip" for writing,
\* then adds every file below root as it is on disk at that moment.
make_archive(fs, base_name, root_dir) ==
    LET zipFile == ZipPath(base_name)
        opened  == (zipFile :> ZipInProgress) @@ fs
    IN  (zipFile :> Zip(Listing(opened, normpath(root_dir)))) @@ fs

----------------------------------------------------------------------------
(* The command lines and file systems a run can start from *)

InputPath == <<"in.png">>
OutDir == <<"tmp", "out">>
OutDirSlash == <<"tmp", "out", "">>
ZipFlag == <<"--zip">>

Tokens == {InputPath, OutDir, OutDirSlash, <<>>, ZipFlag}

CommandLines == SeqsUpTo(Tokens, MaxArgs)

\* Only the source image exists.
FreshFiles == (InputPath :> Png(SourceImage))

\* The output directory exists and holds files of an earlier use.
UsedFiles ==
    (<<"tmp", "out", "out_1.png">> :> Png(Zeros(1, 1)))
    @@ (<<"tmp", "out", "notes.txt">> :> Other("notes"))
    @@ FreshFiles

StartFileSystems ==
    { [dirs |-> {}, files |-> FreshFiles],
      [dirs |-> Prefixes(OutDir), files |-> UsedFiles] }

----------------------------------------------------------------------------
(* Records of what the process emits *)

HelpText(arguments) == [stream |-> "stdout", kind |-> "help", arguments |-> arguments]
UsageError == [stream |-> "stderr", kind |-> "usage_error"]
Traceback == [stream |-> "stderr", kind |-> "traceback"]

LogStart(input_path, output_path) ==
    [level |-> "INFO", msg |-> "Starting icon extraction", a |-> input_path, b |-> output_path]
LogLoadError(input_path) ==
    [level |-> "ERROR", msg |-> "Could not load image", a |-> input_path, b |-> <<>>]
LogSaved(img_path) ==
    [level |-> "INFO", msg |-> "Saved image", a |-> img_path, b |-> <<>>]
LogComplete(n) ==
    [level |-> "INFO", msg |-> "Extraction complete", a |-> <<n>>, b |-> <<>>]
LogSavedIn(output_path) ==
    [level |-> "INFO", msg |-> "Icons saved in", a |-> output_path, b |-> <<>>]
LogZip(zip_file_path) ==
    [level |-> "INFO", msg |-> "Download ZIP", a |-> zip_file_path, b |-> <<>>]

\* One file system call: op is "makedirs", "imwrite" or "make_archive";
\* result is "ok", "false" (imwrite returned False) or "raised";
\* idx is the loop index i of an imwrite, and 0 - 1 for the other calls.
Call(op, path, result, idx) == [op |-> op, path |-> path, result |-> result, idx |-> idx]

----------------------------------------------------------------------------
(* Initial state: a process about to run the entry point *)

AllArguments == {"image_path", "output_dir", "--zip"}

FreshProcess ==
    /\ pc = "print_help_before"
    /\ parser = {}
    /\ args = None
    /\ console = <<>>
    /\ log = <<>>
    /\ img = None
    /\ contours = <<>>
    /\ i = 0
    /\ extracted_files = <<>>
    /\ exitCode = 0 - 1
    /\ io = <<>>

Init ==
    /\ argv \in CommandLines
    /\ detected = {}
    /\ \E fs \in StartFileSystems :
           /\ dirs = fs.dirs
           /\ files = fs.files
           /\ atStart = [dirs |-> fs.dirs, files |-> fs.files]
    /\ run = 1
    /\ FreshProcess

----------------------------------------------------------------------------
(* The entry point, lines 77-97 *)

\* Line 83: parser.print_help(), before any argument is registered.
PrintHelpBefore ==
    /\ pc = "print_help_before"
    /\ console' = Append(console, HelpText(parser))
    /\ pc' = "add_argument"
    /\ UNCHANGED <<argv, detected, dirs, files, parser, args, log, img, contours,
                   i, extracted_files, exitCode, io, run, atStart>>

\* Lines 84-86: the three add_argument calls.
AddArguments ==
    /\ pc = "add_argument"
    /\ parser' = AllArguments
    /\ pc' = "parse_args"
    /\ UNCHANGED <<argv, detected, dirs, files, args, console, log, img, contours,
                   i, extracted_files, exitCode, io, run, atStart>>

Positionals(line) == SelectSeq(line, LAMBDA t : t # ZipFlag)

\* parse_args accepts a line with exactly the two positional arguments.
Parses(line) == Len(Positionals(line)) = Cardinality(AllArguments \ {"--zip"})

Namespace(line) ==
    [image_path |-> Positionals(line)[1],
     output_dir |-> Positionals(line)[2],
     zip        |-> ZipFlag \in Range(line)]

\* Line 89: parser.parse_args() succeeds.
ParseArgs ==
    /\ pc = "parse_args"
    /\ Parses(argv)
    /\ args' = Namespace(argv)
    /\ pc' = "check_args"
    /\ UNCHANGED <<argv, detected, dirs, files, parser, console, log, img, contours,
                   i, extracted_files, exitCode, io, run, atStart>>

\* Line 89: parse_args reports a usage error and exits with status 2.
ParseArgsError ==
    /\ pc = "parse_args"
    /\ ~Parses(argv)
    /\ console' = Append(console, UsageError)
    /\ exitCode' = 2
    /\ pc' = "exited"
    /\ UNCHANGED <<argv, detected, dirs, files, parser, args, log, img, contours,
                   i, extracted_files, io, run, atStart>>

\* not args.image_path or not args.output_dir
ArgumentMissing(ns) == ns.image_path = <<>> \/ ns.output_dir = <<>>

\* Lines 92-93: an empty argument ends in parser.error.
CheckArgsError ==
    /\ pc = "check_args"
    /\ ArgumentMissing(args)
    /\ console' = Append(console, UsageError)
    /\ exitCode' = 2
    /\ pc' = "exited"
    /\ UNCHANGED <<argv, detected, dirs, files, parser, args, log, img, contours,
                   i, extracted_files, io, run, atStart>>

\* Variant: no help is printed after parsing.
PrintHelpAfter_Silent ==
    /\ pc = "check_args"
    /\ ~ArgumentMissing(args)
    /\ pc' = "call_extract"
    /\ UNCHANGED <<argv, detected, dirs, files, parser, args, console, log, img,
                   contours, i, extracted_files, exitCode, io, run, atStart>>

\* Lines 92-95: both arguments are there; parser.print_help() again.
PrintHelpAfter ==
    /\ pc = "check_args"
    /\ ~ArgumentMissing(args)
    /\ console' = Append(console, HelpText(parser))
    /\ pc' = "call_extract"
    /\ UNCHANGED <<argv, detected, dirs, files, parser, args, log, img, contours,
                   i, extracted_files, exitCode, io, run, atStart>>

----------------------------------------------------------------------------
(* extract_multiple_images_from_composite(input_path, output_path,         *)
(* zip_output), lines 17-75, called at line 97                             *)

input_path == args.image_path
output_path == args.output_dir
zip_output == args.zip

\* Line 44: os.path.basename(os.path.normpath(output_path))
output_folder_name == basename(normpath(output_path))

\* Variant: files are numbered after the ones the directory already holds.
ImgPath_AfterExisting(idx) ==
    join(output_path,
         FileName(output_folder_name,
                  idx + Cardinality(DOMAIN Listing(files, normpath(output_path)))))

\* Line 63: os.path.join(output_path, f"{output_folder_name}_{i + 1}.png")
ImgPath(idx) == join(output_path, FileName(output_folder_name, idx))

\* Variant: the output directory is created before the image is loaded.
ExtractStart_MakesDirectoryFirst ==
    /\ pc = "call_extract"
    /\ log' = Append(log, LogStart(input_path, output_path))
    /\ dirs' = dirs \cup Prefixes(normpath(output_path))
    /\ pc' = "imread"
    /\ UNCHANGED <<argv, detected, files, parser, args, console, img, contours,
                   i, extracted_files, exitCode, io, run, atStart>>

\* Lines 97 and 18: the call, and its first log line.
ExtractStart ==
    /\ pc = "call_extract"
    /\ log' = Append(log, LogStart(input_path, output_path))
    /\ pc' = "imread"
    /\ UNCHANGED <<argv, detected, dirs, files, parser, args, console, img, contours,
                   i, extracted_files, exitCode, io, run, atStart>>

\* Lines 21-25: the image does not load; log the error and return.
LoadFail ==
    /\ pc = "imread"
    /\ imread(files, input_path) = None
    /\ log' = Append(log, LogLoadError(input_path))
    /\ pc' = "return"
    /\ UNCHANGED <<argv, detected, dirs, files, parser, args, console, img, contours,
                   i, extracted_files, exitCode, io, run, atStart>>

\* Line 21: the image loads.
LoadOk ==
    /\ pc = "imread"
    /\ imread(files, input_path) # None
    /\ img' = imread(files, input_path)
    /\ pc' = "findContours"
    /\ UNCHANGED <<argv, detected, dirs, files, parser, args, console, log, contours,
                   i, extracted_files, exitCode, io, run, atStart>>

\* Lines 28-39: grayscale, adaptive threshold, findContours.  The detector
\* yields some list of regions for the image, and the same list each time.
Detect ==
    /\ pc = "findContours"
    /\ \E found \in Detections :
           /\ detected = {} \/ detected = {found}
           /\ detected' = {found}
           /\ contours' = found
    /\ pc' = "makedirs"
    /\ UNCHANGED <<argv, dirs, files, parser, args, console, log, img,
                   i, extracted_files, exitCode, io, run, atStart>>

\* Variant: the directory is not created up front.
MakeDirs_Deferred ==
    /\ pc = "makedirs"
    /\ ~MakedirsRaises(files, output_path)
    /\ io' = Append(io, Call("makedirs", normpath(output_path), "ok", 0 - 1))
    /\ extracted_files' = <<>>
    /\ i' = 0
    /\ pc' = "loop"
    /\ UNCHANGED <<argv, detected, dirs, files, parser, args, console, log, img,
                   contours, exitCode, run, atStart>>

\* Lines 42-47: os.makedirs(output_path, exist_ok=True) succeeds.
MakeDirs ==
    /\ pc = "makedirs"
    /\ ~MakedirsRaises(files, output_path)
    /\ dirs' = dirs \cup Prefixes(normpath(output_path))
    /\ io' = Append(io, Call("makedirs", normpath(output_path), "ok", 0 - 1))
    /\ extracted_files' = <<>>
    /\ i' = 0
    /\ pc' = "loop"
    /\ UNCHANGED <<argv, detected, files, parser, args, console, log, img, contours,
                   exitCode, run, atStart>>

\* Line 42: os.makedirs raises (a file is in the way); nothing handles it.
MakeDirsRaise ==
    /\ pc = "makedirs"
    /\ MakedirsRaises(files, output_path)
    /\ io' = Append(io, Call("makedirs", normpath(output_path), "raised", 0 - 1))
    /\ pc' = "raise"
    /\ UNCHANGED <<argv, detected, dirs, files, parser, args, console, log, img,
                   contours, i, extracted_files, exitCode, run, atStart>>

\* The contour of the current iteration (Python's contours[i]).
Current == contours[i + 1]

Survives(contour) == PassesFilter(boundingRect(contour).w, boundingRect(contour).h)

\* Lines 50-54: a contour that fails the size test is passed over.
LoopSkip ==
    /\ pc = "loop"
    /\ i < Len(contours)
    /\ ~Survives(Current)
    /\ i' = i + 1
    /\ UNCHANGED <<argv, detected, dirs, files, pc, parser, args, console, log, img,
                   contours, extracted_files, exitCode, io, run, atStart>>

\* Lines 55-66: crop, mask, write, record and log one region.
LoopWrite ==
    /\ pc = "loop"
    /\ i < Len(contours)
    /\ Survives(Current)
    /\ files' = (ImgPath(i) :> Png(MaskedRoi(img, Current))) @@ files
    /\ io' = Append(io, Call("imwrite", ImgPath(i), "ok", i))
    /\ extracted_files' = Append(extracted_files, ImgPath(i))
    /\ log' = Append(log, LogSaved(ImgPath(i)))
    /\ i' = i + 1
    /\ UNCHANGED <<argv, detected, dirs, pc, parser, args, console, img, contours,
                   exitCode, run, atStart>>

\* Lines 64-66: cv2.imwrite cannot write and returns False; the result is
\* not looked at, so the path is recorded and logged all the same.
LoopWriteFalse ==
    /\ pc = "loop"
    /\ i < Len(contours)
    /\ Survives(Current)
    /\ io' = Append(io, Call("imwrite", ImgPath(i), "false", i))
    /\ extracted_files' = Append(extracted_files, ImgPath(i))
    /\ log' = Append(log, LogSaved(ImgPath(i)))
    /\ i' = i + 1
    /\ UNCHANGED <<argv, detected, dirs, files, pc, parser, args, console, img,
                   contours, exitCode, run, atStart>>

\* Variant: the exception of a write is caught and the loop goes on.
LoopWriteRaise_Swallowed ==
    /\ pc = "loop"
    /\ i < Len(contours)
    /\ Survives(Current)
    /\ io' = Append(io, Call("imwrite", ImgPath(i), "raised", i))
    /\ i' = i + 1
    /\ UNCHANGED <<argv, detected, dirs, files, pc, parser, args, console, log, img,
                   contours, extracted_files, exitCode, run, atStart>>

\* Line 64: cv2.imwrite raises; nothing handles it.
LoopWriteRaise ==
    /\ pc = "loop"
    /\ i < Len(contours)
    /\ Survives(Current)
    /\ io' = Append(io, Call("imwrite", ImgPath(i), "raised", i))
    /\ pc' = "raise"
    /\ UNCHANGED <<argv, detected, dirs, files, parser, args, console, log, img,
                   contours, i, extracted_files, exitCode, run, atStart>>

\* Lines 68-71: the loop is over; the two summary lines.
Summarize ==
    /\ pc = "loop"
    /\ i = Len(contours)
    /\ log' = log \o <<LogComplete(Len(extracted_files)), LogSavedIn(output_path)>>
    /\ pc' = IF zip_output THEN "make_archive" ELSE "return"
    /\ UNCHANGED <<argv, detected, dirs, files, parser, args, console, img, contours,
                   i, extracted_files, exitCode, io, run, atStart>>

\* Lines 72-75: shutil.make_archive(output_path, 'zip', output_path).
Archive ==
    /\ pc = "make_archive"
    /\ files' = make_archive(files, output_path, output_path)
    /\ io' = Append(io, Call("make_archive", ZipPath(output_path), "ok", 0 - 1))
    /\ log' = Append(log, LogZip(ZipPath(output_path)))
    /\ pc' = "return"
    /\ UNCHANGED <<argv, detected, dirs, parser, args, console, img, contours,
                   i, extracted_files, exitCode, run, atStart>>

\* The function returns and the script ends with status 0.
Return ==
    /\ pc = "return"
    /\ exitCode' = 0
    /\ pc' = "exited"
    /\ img' = None /\ contours' = <<>> /\ i' = 0 /\ extracted_files' = <<>>
    /\ UNCHANGED <<argv, detected, dirs, files, parser, args, console, log, io,
                   run, atStart>>

\* The exception leaves the function and the script: traceback, status 1.
Raise ==
    /\ pc = "raise"
    /\ console' = Append(console, Traceback)
    /\ exitCode' = 1
    /\ pc' = "exited"
    /\ img' = None /\ contours' = <<>> /\ i' = 0 /\ extracted_files' = <<>>
    /\ UNCHANGED <<argv, detected, dirs, files, parser, args, log, io, run, atStart>>

\* The run completed and every call it made did its work.
CleanRun ==
    /\ exitCode = 0
    /\ \E k \in 1..Len(log) : log[k].msg = "Extraction complete"
    /\ \A k \in 1..Len(io) : io[k].result = "ok"

\* After a run that completed, the tool is started again with the same
\* command line.
Rerun ==
    /\ pc = "exited"
    /\ CleanRun
    /\ run < MaxRuns
    /\ run' = run + 1
    /\ atStart' = [dirs |-> dirs, files |-> files]
    /\ pc' = "print_help_before"
    /\ parser' = {} /\ args' = None /\ console' = <<>> /\ log' = <<>>
    /\ img' = None /\ contours' = <<>> /\ i' = 0 /\ extracted_files' = <<>>
    /\ exitCode' = 0 - 1 /\ io' = <<>>
    /\ UNCHANGED <<argv, detected, dirs, files>>

\* One invocation of the tool.
Next ==
    \/ PrintHelpBefore \/ AddArguments \/ ParseArgs \/ ParseArgsError
    \/ CheckArgsError \/ PrintHelpAfter
    \/ ExtractStart \/ LoadFail \/ LoadOk \/ Detect
    \/ MakeDirs \/ MakeDirsRaise
    \/ LoopSkip \/ LoopWrite \/ LoopWriteFalse \/ LoopWriteRaise
    \/ Summarize \/ Archive \/ Return \/ Raise

Spec == Init /\ [][Next]_vars

\* The tool run again on the same command line, up to MaxRuns times.
NextAgain == Next \/ Rerun

SpecRerun == Init /\ [][NextAgain]_vars

----------------------------------------------------------------------------
(* What the claims speak about *)

\* The calls of one kind this process made, in order.
Calls(op) == SelectSeq(io, LAMBDA c : c.op = op)

AllCallsOk == \A k \in 1..Len(io) : io[k].result = "ok"

Logged(msg) == \E k \in 1..Len(log) : log[k].msg = msg

\* The write loop ran to its end (the summary is logged right after it).
LoopFinished == pc \in {"make_archive", "return"} /\ Logged("Extraction complete")

\* Positions in contours of the regions with width > 20 and height > 20.
Surviving ==
    {k \in 1..Len(contours) :
        boundingRect(contours[k]).w > 20 /\ boundingRect(contours[k]).h > 20}

HelpCount == Cardinality({k \in 1..Len(console) : console[k].kind = "help"})

InExtractor ==
    pc \in {"imread", "findContours", "makedirs", "loop", "make_archive", "return", "raise"}

FileSystemUntouched == files = atStart.files /\ dirs = atStart.dirs

\* The files of directory d, the archive of this run left aside.
ListingWithout(fs, d, archive) ==
    LET all == Listing(fs, d)
        arc == {rel \in DOMAIN all : d \o rel = archive}
    IN  [rel \in (DOMAIN all) \ arc |-> all[rel]]

----------------------------------------------------------------------------
(* C1: when the image loads and no write fails, the number of image files  *)
(* written equals the number of detected regions with width > 20 and       *)
(* height > 20, and no two written files share a name.                     *)
C1_CountAndDistinctNames ==
    (LoopFinished /\ AllCallsOk) =>
        LET written == Calls("imwrite")
            names   == {written[k].path : k \in 1..Len(written)}
        IN  /\ Len(written) = Cardinality(Surviving)
            /\ Cardinality(names) = Len(written)
            /\ names \subseteq DOMAIN files
            /\ Len(extracted_files) = Len(written)

C1_Witness ==
    /\ LoopFinished /\ AllCallsOk
    /\ Len(contours) = 3
    /\ Len(Calls("imwrite")) = 2

(* C2: the j-th surviving region in detection order is written as          *)
(* {basename}_j.png, so K surviving regions give the files 1..K, also when *)
(* discarded regions precede or lie between them.                          *)
C2_SequentialIndex ==
    (LoopFinished /\ AllCallsOk) =>
        \A j \in 1..Len(Calls("imwrite")) :
            Calls("imwrite")[j].path =
                join(output_path, output_folder_name \o "_" \o ToString(j) \o ".png")

(* C3: a region of width <= 20 or height <= 20 is never written, and every *)
(* region of width >= 21 and height >= 21 is written.                      *)
C3_StrictSizeFilter ==
    (pc \in {"loop", "make_archive", "return"} /\ img # None) =>
        \A k \in 1..Len(contours) :
            LET b     == boundingRect(contours[k])
                calls == {c \in 1..Len(io) : io[c].op = "imwrite" /\ io[c].idx = k - 1}
            IN  /\ (b.w <= 20 \/ b.h <= 20) => calls = {}
                /\ (b.w >= 21 /\ b.h >= 21 /\ (k <= i \/ pc # "loop")) =>
                       /\ Cardinality(calls) = 1
                       /\ \A c \in calls : io[c].result = "ok" => io[c].path \in DOMAIN files

C3_Witness ==
    /\ LoopFinished /\ AllCallsOk
    /\ Narrow20x30 \in Range(contours)
    /\ Square21 \in Range(contours)
    /\ Len(Calls("imwrite")) = 1

(* C4: when the image fails to load, the run logs the starting INFO line   *)
(* and one ERROR line, and leaves the file system as it was: no directory, *)
(* no image file, no archive, also with zip_output true.                   *)
C4_LoadFailureLeavesNoTrace ==
    (Logged("Could not load image") \/ (pc = "return" /\ img = None)) =>
        /\ log = <<LogStart(input_path, output_path), LogLoadError(input_path)>>
        /\ log[2].level = "ERROR"
        /\ FileSystemUntouched
        /\ io = <<>>
        /\ pc \in {"return", "exited"}
        /\ pc = "exited" => exitCode = 0

C4_Witness ==
    /\ pc = "exited"
    /\ Logged("Could not load image")
    /\ zip_output
    /\ normpath(output_path) \notin dirs

(* C5: the archive is made iff zip_output is true and the loop ran to its  *)
(* end, only after every surviving region was written, and it holds        *)
(* exactly the files that are in output_path, with the same content.       *)
C5_ArchiveIsSnapshot ==
    /\ (pc = "return") =>
           (Calls("make_archive") # <<>> <=> (zip_output /\ Logged("Extraction complete")))
    /\ (Calls("make_archive") # <<>>) =>
           /\ Logged("Extraction complete")
           /\ pc = "return" => Len(Calls("imwrite")) = Cardinality(Surviving)
           /\ io[Len(io)].op = "make_archive"
    /\ (pc = "return" /\ Calls("make_archive") # <<>>) =>
           /\ ZipPath(output_path) \in DOMAIN files
           /\ files[ZipPath(output_path)] = Zip(Listing(files, normpath(output_path)))

(* C6: a second run on the same input and output directory, the detector   *)
(* yielding the same regions, leaves the directory as the first run left   *)
(* it; every write of the second run overwrites a file of the first.       *)
(* (A run numbered 2 or more follows a run that completed, see Rerun, and  *)
(* atStart is the file system that run left.)                              *)
C6_RerunIdempotent ==
    (run >= 2 /\ pc = "return" /\ Logged("Extraction complete") /\ AllCallsOk) =>
        /\ Listing(files, normpath(output_path)) = Listing(atStart.files, normpath(output_path))
        /\ dirs = atStart.dirs
        /\ Len(Calls("imwrite")) = Cardinality(Surviving)
        /\ \A k \in 1..Len(Calls("imwrite")) : Calls("imwrite")[k].path \in DOMAIN atStart.files

C6_Witness ==
    /\ run = 2 /\ pc = "return" /\ AllCallsOk
    /\ Len(Calls("imwrite")) = 2
    /\ <<"tmp", "out", "notes.txt">> \in DOMAIN files

(* C7: the image written for a region with bounding box (x, y, w, h) has   *)
(* w columns and h rows; its pixel (r, c) is the source pixel (y+r, x+c)   *)
(* where that point is inside the region's contour and zero elsewhere; the *)
(* source image is not modified.                                           *)
C7_MaskedCrop ==
    (pc = "loop" /\ io # <<>> /\ io[Len(io)].op = "imwrite" /\ io[Len(io)].result = "ok") =>
        LET call    == io[Len(io)]
            contour == contours[call.idx + 1]
            b       == boundingRect(contour)
            out     == files[call.path].px
        IN  /\ DOMAIN out = 0..(b.h - 1)
            /\ \A r \in DOMAIN out :
                   /\ DOMAIN out[r] = 0..(b.w - 1)
                   /\ \A c \in DOMAIN out[r] :
                          out[r][c] = IF InsideContour(contour, b.x + c, b.y + r)
                                      THEN SourceImage[b.y + r][b.x + c]
                                      ELSE 0
            /\ img = SourceImage
            /\ files[normpath(input_path)] = Png(SourceImage)

C7_Witness ==
    /\ pc = "loop" /\ io # <<>>
    /\ io[Len(io)].op = "imwrite" /\ io[Len(io)].result = "ok"
    /\ contours[io[Len(io)].idx + 1] = Octagon22x21
    /\ files[io[Len(io)].path].px[0][0] = 0
    /\ files[io[Len(io)].path].px[10][10] = SourceImage[10][32]

(* C8: help is printed once before and once after parsing, the extractor   *)
(* runs only after both; a missing positional argument ends in a usage     *)
(* error and a nonzero exit, the extractor never invoked.                  *)
C8_HelpTwiceThenExtract ==
    /\ pc \in {"add_argument", "parse_args", "check_args"} => HelpCount = 1
    /\ pc = "check_args" => args # None
    /\ (InExtractor \/ pc = "call_extract" \/ log # <<>> \/ io # <<>>) =>
           /\ HelpCount = 2
           /\ SubSeq(console, 1, 2) = <<HelpText({}), HelpText(AllArguments)>>
           /\ args = Namespace(argv)
    /\ (pc = "exited" /\ Len(Positionals(argv)) < 2) =>
           /\ exitCode = 2
           /\ console[Len(console)] = UsageError
           /\ log = <<>> /\ io = <<>>
           /\ FileSystemUntouched
    /\ (pc = "exited" /\ exitCode = 2) => (log = <<>> /\ io = <<>> /\ FileSystemUntouched)

C8_Witness ==
    /\ pc = "exited" /\ exitCode = 2
    /\ Len(Positionals(argv)) = 1
    /\ ZipFlag \in Range(argv)

(* C9: when creating the directory or writing the j-th image raises, the   *)
(* run stops there: the files written before stay as they are, no later    *)
(* region is written, no summary is logged and no archive is made; only a  *)
(* load failure becomes a logged normal return.                            *)
C9_FaultState ==
    /\ (pc = "raise" \/ (pc = "exited" /\ exitCode = 1)) =>
           /\ io # <<>>
           /\ io[Len(io)].result = "raised"
           /\ \A k \in 1..(Len(io) - 1) : io[k].result # "raised"
           /\ ~Logged("Extraction complete")
           /\ ~Logged("Download ZIP")
           /\ Calls("make_archive") = <<>>
           /\ ZipPath(output_path) \in DOMAIN files => ZipPath(output_path) \in DOMAIN atStart.files
           /\ \A k \in 1..Len(io) :
                  (io[k].op = "imwrite" /\ io[k].result = "ok") => io[k].path \in DOMAIN files
           /\ pc = "raise" =>
                  /\ io[Len(io)].op = "imwrite" => io[Len(io)].idx = i
                  /\ \A k \in 1..Len(io) : io[k].op = "imwrite" => io[k].idx <= i
    /\ (\E k \in 1..Len(io) : io[k].result = "raised") =>
           (pc = "raise" \/ (pc = "exited" /\ exitCode = 1))
    /\ (\E k \in 1..Len(log) : log[k].level = "ERROR") =>
           (Logged("Could not load image") /\ io = <<>> /\ pc \in {"return", "exited"})

C9_FaultStep ==
    (pc = "raise" \/ pc' = "raise") => (files' = files /\ dirs' = dirs /\ log' = log)

C10_NothingSurvives ==
    (pc = "return" /\ img # None /\ Surviving = {}) =>
        /\ Calls("imwrite") = <<>>
        /\ \E k \in 1..Len(log) :
               log[k].msg = "Extraction complete" /\ log[k] = LogComplete(0)
        /\ normpath(output_path) \in dirs
        /\ ListingWithout(files, normpath(output_path), ZipPath(output_path))
             = ListingWithout(atStart.files, normpath(output_path), ZipPath(output_path))
        /\ zip_output =>
               /\ ZipPath(output_path) \in DOMAIN files
               /\ files[ZipPath(output_path)].kind = "zip"
               /\ files[ZipPath(output_path)].complete
               /\ ListingWithout(files[ZipPath(output_path)].entries, <<>>,
                                 SubSeq(ZipPath(output_path), Len(normpath(output_path)) + 1,
                                        Len(ZipPath(output_path))))
                    = ListingWithout(files, normpath(output_path), ZipPath(output_path))
        /\ ~zip_output => Calls("make_archive") = <<>>

C10_Witness ==
    /\ pc = "return" /\ img # None
    /\ contours = <<Narrow20x30, Flat22x20>>
    /\ zip_output
    /\ ZipPath(output_path) \in DOMAIN files
    /\ normpath(output_path) \notin atStart.dirs

====
